---- MODULE Spec2Model ----
(***************************************************************************)
(* Model of src/minmax_pruning_algorithm.py: the 3x3 board (State), the    *)
(* depth-limited minimax search with alpha-beta pruning (minimax_pruning), *)
(* the players (HumanPlayer, AIPlayer) and the game loop (Game).           *)
(***************************************************************************)
EXTENDS Integers, Sequences, FiniteSets, TLC

VARIABLES
    board,          \* Game.state.board / the State handed to the search: [0..8 -> Symbol]
    current_player, \* Game.current_player
    players,        \* Game.players: symbol -> policy record
    pc,             \* position of the running program
    move,           \* the value the last get_move returned (None before the first)
    rejected,       \* number of moves Game.make_move has rejected (returned False for)
    call,           \* arguments of the last top-level minimax_pruning call
    result,         \* what that call produced
    stack,          \* call stack of the step-wise execution of minimax_pruning
    ret             \* value handed back by the frame that returned last

vars == <<board, current_player, players, pc, move, rejected, call, result, stack, ret>>

----------------------------------------------------------------------------
(* Values *)

\* Number of cells: [" "] * 9 and range(9).
NumCells == 9

Cells == 0..(NumCells - 1)

Empty == " "

Symbols == {"X", "O"}

\* Python's None / an int wrapped so that both compare without a type clash.
None == <<>>

Some(v) == <<v>>

\* math.inf: a value above every score the search can produce (|score| <= 100).
inf == 1000

\* State.__init__
NewBoard == [i \in Cells |-> Empty]

----------------------------------------------------------------------------
(* State *)

\* The three rows: range(0, 9, 3) x range(3).
Rows == {{i + j : j \in 0..2} : i \in {0, 3, 6}}

\* The three columns: range(3) x range(0, 9, 3).
Columns == {{i + j : j \in {0, 3, 6}} : i \in 0..2}

\* range(0, 9, 4) and range(2, 7, 2).
Diagonals == {{0, 4, 8}, {2, 4, 6}}

is_winner(b, symbol) ==
    \/ \E l \in Rows : \A c \in l : b[c] = symbol
    \/ \E l \in Columns : \A c \in l : b[c] = symbol
    \/ \E l \in Diagonals : \A c \in l : b[c] = symbol

is_full(b) == \A c \in Cells : b[c] # Empty

is_terminal(b) == is_winner(b, "X") \/ is_winner(b, "O") \/ is_full(b)

corners == {0, 2, 6, 8}

center == 4

sides == {1, 3, 5, 7}

evaluate(b, player) ==
    LET sign == IF player = "X" THEN -1 ELSE 1
        score == 3 * Cardinality({p \in corners : b[p] = player})
                 + 2 * Cardinality({p \in sides : b[p] = player})
                 + (IF b[center] = player THEN 4 ELSE 0)
    IN  sign * score

opponent(player) == IF player = "X" THEN "O" ELSE "X"

----------------------------------------------------------------------------
(* minimax_pruning as a function of its arguments *)

Min(a, b) == IF a <= b THEN a ELSE b

Max(a, b) == IF a >= b THEN a ELSE b

RECURSIVE SeqMin(_), SeqMax(_), index_from(_, _, _)
\* min(scores)
SeqMin(s) == IF Len(s) = 1 THEN s[1] ELSE Min(s[1], SeqMin(Tail(s)))

\* max(scores)
SeqMax(s) == IF Len(s) = 1 THEN s[1] ELSE Max(s[1], SeqMax(Tail(s)))

index_from(s, v, k) == IF s[k] = v THEN k ELSE index_from(s, v, k + 1)

\* list.index: the position of the first element equal to v.
index(s, v) == index_from(s, v, 1)

RECURSIVE last_index_from(_, _, _)
last_index_from(s, v, k) == IF s[k] = v THEN k ELSE last_index_from(s, v, k - 1)

\* Mutant of best_score_index: the last position of the best score is taken.
best_score_index_last(player, scores) ==
    IF player = "X" THEN last_index_from(scores, SeqMin(scores), Len(scores))
    ELSE last_index_from(scores, SeqMax(scores), Len(scores))

\* scores.index(min(scores)) for X, scores.index(max(scores)) for O.
best_score_index(player, scores) ==
    IF player = "X" THEN index(scores, SeqMin(scores))
    ELSE index(scores, SeqMax(scores))

\* A call that ends without a value: the exception it raised.
Raised(exc) ==
    [raised |-> TRUE, exc |-> exc, score |-> 0, move |-> None,
     scores |-> <<>>, moves |-> <<>>]

\* return score, move; scores and moves are the call's lists of explored
\* children (empty when it returned before the loop).
Returned(score, mv, scores, moves) ==
    [raised |-> FALSE, exc |-> "", score |-> score, move |-> mv,
     scores |-> scores, moves |-> moves]

\* The branches that return before the loop: a win, a full board, depth == 0.
is_base(state, depth) ==
    is_winner(state, "X") \/ is_winner(state, "O") \/ is_full(state) \/ depth = 0

\* Mutant of base_score: a win of O is scored like a win of X.
base_score_one_sign(state, player) ==
    IF is_winner(state, "X") THEN -100
    ELSE IF is_winner(state, "O") THEN -100
    ELSE IF is_full(state) THEN 0
    ELSE evaluate(state, opponent(player))

\* The score of such a branch, in the order the code tests them.
base_score(state, player) ==
    IF is_winner(state, "X") THEN -100
    ELSE IF is_winner(state, "O") THEN 100
    ELSE IF is_full(state) THEN 0
    ELSE evaluate(state, opponent(player))

\* Each of these branches formats last_move + 1 for its trace line before it
\* returns: with last_move None that raises TypeError.
Leaf(score, last_move) ==
    IF last_move = None THEN Raised("TypeError")
    ELSE Returned(score, None, <<>>, <<>>)

\* new_state: a copy of the board with cell i set to the mover.
successor(state, i, player) == [state EXCEPT ![i] = player]

\* Mutant of move_number: the loop index itself is recorded.
move_number_index(i) == i

\* moves.append(i + 1)
move_number(i) == i + 1

\* beta = min(beta, score) when X moves.
tighten_beta(player, beta, score) == IF player = "X" THEN Min(beta, score) ELSE beta

\* alpha = max(alpha, score) when O moves.
tighten_alpha(player, alpha, score) == IF player = "X" THEN alpha ELSE Max(alpha, score)

\* if beta <= alpha: break
cutoff(alpha, beta) == beta <= alpha

\* return scores[best_score_index], moves[best_score_index]
select_best(player, scores, moves) ==
    LET best == best_score_index(player, scores)
    IN  Returned(scores[best], Some(moves[best]), scores, moves)

RECURSIVE minimax_pruning(_, _, _, _, _, _), search_loop(_, _, _, _, _, _, _, _)
\* for i in range(9): ... from index i on, with the running window and lists.
search_loop(state, player, depth, alpha, beta, i, scores, moves) ==
    IF i = NumCells THEN [scores |-> scores, moves |-> moves]
    ELSE IF state[i] # Empty
    THEN search_loop(state, player, depth, alpha, beta, i + 1, scores, moves)
    ELSE LET score == minimax_pruning(successor(state, i, player), opponent(player),
                                      depth - 1, alpha, beta, Some(i)).score
             beta2 == tighten_beta(player, beta, score)
             alpha2 == tighten_alpha(player, alpha, score)
             scores2 == Append(scores, score)
             moves2 == Append(moves, move_number(i))
         IN  IF cutoff(alpha2, beta2)
             THEN [scores |-> scores2, moves |-> moves2]
             ELSE search_loop(state, player, depth, alpha2, beta2, i + 1,
                              scores2, moves2)

minimax_pruning(state, player, depth, alpha, beta, last_move) ==
    IF is_base(state, depth) THEN Leaf(base_score(state, player), last_move)
    ELSE LET l == search_loop(state, player, depth, alpha, beta, 0, <<>>, <<>>)
         IN  select_best(player, l.scores, l.moves)

----------------------------------------------------------------------------
(* Search calls on the boards of alternating play *)

\* Searches are run on boards with at most this many Empty cells.
MaxEmpty == 5

\* Largest depth argument of a search call.
MaxDepth == 5

NoCall ==
    [state |-> NewBoard, player |-> "", depth |-> 0, alpha |-> 0, beta |-> 0,
     last_move |-> None]

NoResult == Raised("")

NoPlayers == [s \in Symbols |-> [kind |-> "", symbol |-> s, depth |-> 0]]

EmptyCount(b) == Cardinality({c \in Cells : b[c] = Empty})

InitSearch ==
    /\ board = NewBoard
    /\ current_player \in Symbols
    /\ players = NoPlayers
    /\ pc = "input"
    /\ move = None
    /\ rejected = 0
    /\ call = NoCall
    /\ result = NoResult
    /\ stack = <<>>
    /\ ret = NoResult

\* The inputs of the calls: the boards of alternating play, begun by either
\* symbol. Place builds the next one.
Place(c) ==
    /\ pc = "input"
    /\ ~is_terminal(board)
    /\ board[c] = Empty
    /\ board' = [board EXCEPT ![c] = current_player]
    /\ current_player' = opponent(current_player)
    /\ UNCHANGED <<players, pc, move, rejected, call, result, stack, ret>>

\* minimax_pruning(state, player, depth, alpha, beta, indent, last_move) on this board.
Call(player, depth, alpha, beta, last_move) ==
    /\ pc = "input"
    /\ EmptyCount(board) <= MaxEmpty
    /\ call' = [state |-> board, player |-> player, depth |-> depth,
                alpha |-> alpha, beta |-> beta, last_move |-> last_move]
    /\ result' = minimax_pruning(board, player, depth, alpha, beta, last_move)
    /\ pc' = "called"
    /\ UNCHANGED <<board, current_player, players, move, rejected, stack, ret>>

\* last_move is read only by the trace line: None (the default, as AIPlayer
\* calls it) or a cell index (as the recursion calls it).
LastMoves == {None, Some(0)}

NextSearch ==
    \/ \E c \in Cells : Place(c)
    \/ \E p \in Symbols, d \in 0..MaxDepth, lm \in LastMoves :
          Call(p, d, -inf, inf, lm)

SpecSearch == InitSearch /\ [][NextSearch]_vars

----------------------------------------------------------------------------
(* minimax_pruning executed step by step on an explicit call stack *)

\* The board of the blocking scenario: X on 0 and 1, O on 3.
BlockBoard == [NewBoard EXCEPT ![0] = "X", ![1] = "X", ![3] = "O"]

\* The top-level calls that are run: the empty board for either mover and the
\* blocking board for O, each at every depth from 0 to its number of Empty cells.
RunRoots ==
    {[state |-> NewBoard, player |-> p, depth |-> d, alpha |-> -inf, beta |-> inf,
      last_move |-> None] : p \in Symbols, d \in 0..NumCells}
    \cup
    {[state |-> BlockBoard, player |-> "O", depth |-> d, alpha |-> -inf,
      beta |-> inf, last_move |-> None] : d \in 0..EmptyCount(BlockBoard)}

\* A call frame: the arguments and the locals i, scores, moves.
Frame(state, player, depth, alpha, beta, last_move) ==
    [state |-> state, player |-> player, depth |-> depth, alpha |-> alpha,
     beta |-> beta, last_move |-> last_move, i |-> 0, scores |-> <<>>,
     moves |-> <<>>]

Top == stack[Len(stack)]

Pop == SubSeq(stack, 1, Len(stack) - 1)

ReplaceTop(f) == [stack EXCEPT ![Len(stack)] = f]

RECURSIVE next_empty(_, _)
\* The first index >= i whose cell is Empty, or 9: the loop's next iteration
\* that passes `if state.board[i] == " "`.
next_empty(state, i) ==
    IF i = NumCells \/ state[i] = Empty THEN i ELSE next_empty(state, i + 1)

InitRun ==
    /\ call \in RunRoots
    /\ board = call.state
    /\ current_player = call.player
    /\ players = NoPlayers
    /\ pc = "enter"
    /\ move = None
    /\ rejected = 0
    /\ result = NoResult
    /\ stack = <<Frame(call.state, call.player, call.depth, call.alpha, call.beta,
                       call.last_move)>>
    /\ ret = NoResult

\* A frame hands r to its caller; the outermost frame ends the run.
Return(r) ==
    /\ ret' = r
    /\ stack' = Pop
    /\ IF Len(stack) = 1
       THEN pc' = "done" /\ result' = r
       ELSE pc' = "return" /\ UNCHANGED result

\* Entry of a call: the tests before the loop.
Enter ==
    /\ pc = "enter"
    /\ LET f == Top
       IN  IF is_base(f.state, f.depth)
           THEN LET r == Leaf(base_score(f.state, f.player), f.last_move)
                IN  IF r.raised
                    THEN /\ pc' = "raised"
                         /\ result' = r
                         /\ stack' = <<>>
                         /\ UNCHANGED ret
                    ELSE Return(r)
           ELSE /\ pc' = "for"
                /\ UNCHANGED <<stack, ret, result>>
    /\ UNCHANGED <<board, current_player, players, move, rejected, call>>

\* The loop reaches an Empty cell i: the recursive call on the successor.
Descend ==
    /\ pc = "for"
    /\ LET f == Top
           i == next_empty(f.state, f.i)
       IN  /\ i < NumCells
           /\ stack' = Append(ReplaceTop([f EXCEPT !.i = i]),
                              Frame(successor(f.state, i, f.player),
                                    opponent(f.player), f.depth - 1, f.alpha,
                                    f.beta, Some(i)))
    /\ pc' = "enter"
    /\ UNCHANGED <<board, current_player, players, move, rejected, call, result, ret>>

\* The recursive call came back: record the score, tighten the window, and
\* leave the loop when beta <= alpha.
Receive ==
    /\ pc = "return"
    /\ LET f == Top
           score == ret.score
           beta2 == tighten_beta(f.player, f.beta, score)
           alpha2 == tighten_alpha(f.player, f.alpha, score)
       IN  stack' = ReplaceTop([f EXCEPT
                         !.scores = Append(f.scores, score),
                         !.moves = Append(f.moves, move_number(f.i)),
                         !.alpha = alpha2,
                         !.beta = beta2,
                         !.i = IF cutoff(alpha2, beta2) THEN NumCells ELSE f.i + 1])
    /\ pc' = "for"
    /\ UNCHANGED <<board, current_player, players, move, rejected, call, result, ret>>

\* The loop is over: pick the best explored child and return it.
Finish ==
    /\ pc = "for"
    /\ LET f == Top
       IN  /\ next_empty(f.state, f.i) = NumCells
           /\ Return(select_best(f.player, f.scores, f.moves))
    /\ UNCHANGED <<board, current_player, players, move, rejected, call>>

NextRun == Enter \/ Descend \/ Receive \/ Finish

SpecRun == InitRun /\ [][NextRun]_vars /\ WF_vars(NextRun)

\* The step-wise execution ends with what the function computes.
RunAgrees ==
    pc \in {"done", "raised"} =>
        result = minimax_pruning(call.state, call.player, call.depth, call.alpha,
                                 call.beta, call.last_move)

----------------------------------------------------------------------------
(* Game *)

\* How many moves that make_move rejects the policies return in one game.
MaxRejected == 1

\* The integers a move policy is given to return: the nine cell numbers, and
\* out of range 0 and -8 (list indices -1 and -9), -9 and 10 (beyond the list).
MoveInputs == (1..NumCells) \cup {0, 1 - NumCells, 0 - NumCells, NumCells + 1}

\* What the human may type: integers, and text that int() rejects.
HumanInputs == {Some(m) : m \in MoveInputs} \cup {None}

\* list[k] of a list of length n: k itself, n + k for a negative k not below
\* -n, and IndexError (None here) beyond either end.
list_index(k, n) ==
    IF 0 <= k /\ k < n THEN Some(k)
    ELSE IF -n <= k /\ k < 0 THEN Some(n + k)
    ELSE None

\* Game.switch_player
switch_player(p) == IF p = "X" THEN "O" ELSE "X"

\* Game.is_valid_move: board[move - 1] == " ", None when the index raises.
is_valid_move(b, m) ==
    LET k == list_index(m - 1, NumCells)
    IN  IF k = None THEN None ELSE Some(b[k[1]] = Empty)

\* Mutant of first_player: X moves first.
first_player_X == "X"

\* Game.__init__: the player that moves first.
first_player == "O"

\* The policies a Game is constructed with.
HumanPlayer == [kind |-> "Human", symbol |-> "", depth |-> 0]

\* Any other Player subclass: get_move may return any integer.
OtherPlayer == [kind |-> "Other", symbol |-> "", depth |-> 0]

AIPlayer(symbol, depth) == [kind |-> "AI", symbol |-> symbol, depth |-> depth]

GameInit(policies) ==
    /\ board = NewBoard
    /\ current_player = first_player
    /\ players \in [Symbols -> policies]
    /\ pc = "loop"
    /\ move = None
    /\ rejected = 0
    /\ call = NoCall
    /\ result = NoResult
    /\ stack = <<>>
    /\ ret = NoResult

\* The loop test passed and the current policy is asked for a move.
InLoop == pc = "loop" /\ ~is_terminal(board)

\* HumanPlayer.get_move: one pass of its input loop. A move in 1..9 that
\* is_valid_move is returned; anything else prints a message and asks again.
HumanGetMove(inp) ==
    /\ InLoop
    /\ players[current_player].kind = "Human"
    /\ IF /\ inp # None
          /\ 1 <= inp[1] /\ inp[1] <= 9
          /\ is_valid_move(board, inp[1]) = Some(TRUE)
       THEN /\ move' = inp
            /\ pc' = "make_move"
       ELSE UNCHANGED <<move, pc>>
    /\ UNCHANGED <<board, current_player, players, rejected, call, result, stack, ret>>

\* get_move of another Player subclass.
OtherGetMove(m) ==
    /\ InLoop
    /\ players[current_player].kind = "Other"
    /\ rejected < MaxRejected \/ is_valid_move(board, m) # Some(FALSE)
    /\ move' = Some(m)
    /\ pc' = "make_move"
    /\ UNCHANGED <<board, current_player, players, rejected, call, result, stack, ret>>

\* AIPlayer.get_move calls minimax_pruning(game.state, self.symbol, self.depth):
\* the search runs step by step on the call stack.
AICall ==
    /\ InLoop
    /\ players[current_player].kind = "AI"
    /\ LET me == players[current_player]
       IN  /\ call' = [state |-> board, player |-> me.symbol, depth |-> me.depth,
                       alpha |-> -inf, beta |-> inf, last_move |-> None]
           /\ stack' = <<Frame(board, me.symbol, me.depth, -inf, inf, None)>>
    /\ pc' = "enter"
    /\ UNCHANGED <<board, current_player, players, move, rejected, result, ret>>

\* _, move = <the search's result>; return move
AIReturn ==
    /\ pc = "done"
    /\ players[current_player].kind = "AI"
    /\ move' = result.move
    /\ pc' = "make_move"
    /\ UNCHANGED <<board, current_player, players, rejected, call, result, stack, ret>>

\* The rest of the loop body: if self.make_move(move): self.switch_player()
\* make_move: None - 1 raises TypeError, an index beyond the list IndexError;
\* a valid move sets board[move - 1] and returns True, any other returns False.
\* The local variable move is not read again before get_move assigns it: it
\* is None at the loop test.
MakeMove ==
    /\ pc = "make_move"
    /\ IF move = None \/ is_valid_move(board, move[1]) = None
       THEN /\ pc' = "raised"
            /\ UNCHANGED <<board, current_player, rejected, move>>
       ELSE IF is_valid_move(board, move[1]) = Some(TRUE)
       THEN /\ board' = [board EXCEPT ![list_index(move[1] - 1, NumCells)[1]] =
                                          current_player]
            /\ current_player' = switch_player(current_player)
            /\ pc' = "loop"
            /\ move' = None
            /\ UNCHANGED rejected
       ELSE /\ pc' = "loop"
            /\ move' = None
            /\ rejected' = rejected + 1
            /\ UNCHANGED <<board, current_player>>
    /\ UNCHANGED <<players, call, result, stack, ret>>

\* The loop test fails: the board is terminal and play announces the result.
PlayEnd ==
    /\ pc = "loop"
    /\ is_terminal(board)
    /\ pc' = "over"
    /\ UNCHANGED <<board, current_player, players, move, rejected, call, result, stack, ret>>

InitGame == GameInit({HumanPlayer, OtherPlayer})

NextGame ==
    \/ \E inp \in HumanInputs : HumanGetMove(inp)
    \/ \E m \in MoveInputs : OtherGetMove(m)
    \/ MakeMove
    \/ PlayEnd

SpecGame == InitGame /\ [][NextGame]_vars

\* Largest depth bound of an automated player.
MaxAIDepth == 4

\* A Game of two automated players: each has a depth bound of its own and
\* searches for the symbol it was constructed with, which Game does not
\* require to be the symbol it plays.
InitAI == GameInit({AIPlayer(s, d) : s \in Symbols, d \in 1..MaxAIDepth})

NextAI ==
    \/ AICall
    \/ Enter \/ Descend \/ Receive \/ Finish
    \/ AIReturn
    \/ MakeMove
    \/ PlayEnd

SpecAI == InitAI /\ [][NextAI]_vars /\ WF_vars(NextAI)

----------------------------------------------------------------------------
(* Properties of single search calls (SpecSearch) *)

SetMin(S) == CHOOSE x \in S : \A y \in S : x <= y

SetMax(S) == CHOOSE x \in S : \A y \in S : x >= y

RECURSIVE full_minimax(_, _, _)
\* The reference of C1: minimax over every successor, no window, with the
\* same terminal scores and the same depth-zero evaluation.
full_minimax(state, player, depth) ==
    IF is_base(state, depth) THEN base_score(state, player)
    ELSE LET children ==
                 {full_minimax(successor(state, c, player), opponent(player), depth - 1) :
                      c \in {d \in Cells : state[d] = Empty}}
         IN  IF player = "X" THEN SetMin(children) ELSE SetMax(children)

\* The call returned (score, None) before its loop.
ReturnsLeaf(score) ==
    /\ ~result.raised
    /\ result.score = score
    /\ result.move = None
    /\ result.scores = <<>>

\* The weights of the static evaluation as the specification lists them.
CellWeight(c) == IF c = 4 THEN 4 ELSE IF c \in {0, 2, 6, 8} THEN 3 ELSE 2

RECURSIVE WeightSum(_, _, _)
WeightSum(b, symbol, c) ==
    IF c = NumCells THEN 0
    ELSE (IF b[c] = symbol THEN CellWeight(c) ELSE 0) + WeightSum(b, symbol, c + 1)

SpecifiedEvaluate(b, symbol) ==
    IF symbol = "X" THEN 0 - WeightSum(b, symbol, 0) ELSE WeightSum(b, symbol, 0)

\* C1: for every board of alternating play, every mover and every depth, the
\* score minimax_pruning returns with the default window equals the score of
\* the unpruned full-width minimax on the same board, mover and depth.
C1_PruningEquivalence ==
    (pc = "called" /\ call.alpha = -inf /\ call.beta = inf) =>
        /\ ~result.raised
        /\ result.score = full_minimax(board, call.player, call.depth)

\* What holds of C1 in the code: every call that returns a score returns the
\* score of the unpruned minimax.
ReturnedScoreIsMinimax ==
    (pc = "called" /\ ~result.raised) =>
        result.score = full_minimax(board, call.player, call.depth)

\* C2: every call, top-level or recursive, on a board with an X line returns
\* (-100, None); otherwise with an O line (100, None); otherwise on a full
\* board (0, None); it returns normally and explores no successor.
C2_TerminalScoring ==
    pc = "called" =>
        /\ is_winner(board, "X") => ReturnsLeaf(-100)
        /\ (~is_winner(board, "X") /\ is_winner(board, "O")) => ReturnsLeaf(100)
        /\ (~is_winner(board, "X") /\ ~is_winner(board, "O") /\ is_full(board))
               => ReturnsLeaf(0)

\* What holds of C2 in the code: the calls that are given a last_move.
TerminalScoringWithLastMove ==
    (pc = "called" /\ call.last_move # None) =>
        /\ is_winner(board, "X") => ReturnsLeaf(-100)
        /\ (~is_winner(board, "X") /\ is_winner(board, "O")) => ReturnsLeaf(100)
        /\ (~is_winner(board, "X") /\ ~is_winner(board, "O") /\ is_full(board))
               => ReturnsLeaf(0)

\* C3: on a non-terminal board a call with depth 0, the top-level call of an
\* automated player of depth 0 included, returns (evaluate(opponent of the
\* mover), None) without recursing, evaluate being the weighted cell sum
\* (center 4, corner 3, edge 2), negated for X.
C3_DepthZero ==
    (pc = "called" /\ ~is_terminal(board) /\ call.depth = 0) =>
        ReturnsLeaf(SpecifiedEvaluate(board, opponent(call.player)))

\* What holds of C3 in the code: the calls that are given a last_move.
DepthZeroWithLastMove ==
    (pc = "called" /\ ~is_terminal(board) /\ call.depth = 0 /\ call.last_move # None) =>
        ReturnsLeaf(SpecifiedEvaluate(board, opponent(call.player)))

\* C4: on a non-terminal board with depth > 0 the returned move is a cell
\* index 0..8 of a cell that is Empty in the input board; on a terminal board
\* or with depth 0 the returned move is None.
C4_MoveIsEmptyCellIndex ==
    pc = "called" =>
        /\ ~result.raised
        /\ IF ~is_terminal(board) /\ call.depth > 0
           THEN /\ result.move # None
                /\ result.move[1] \in Cells
                /\ board[result.move[1]] = Empty
           ELSE result.move = None

\* What holds of C4 in the code: the move is the 1-based number of an Empty
\* cell, and None in the calls that return before the loop.
MoveIsEmptyCellNumber ==
    (pc = "called" /\ ~result.raised) =>
        IF ~is_terminal(board) /\ call.depth > 0
        THEN /\ result.move # None
             /\ result.move[1] \in 1..NumCells
             /\ board[result.move[1] - 1] = Empty
        ELSE result.move = None

----------------------------------------------------------------------------
(* Properties of the step-wise search (SpecRun) *)

\* r is the (score, move) of the lowest-numbered explored child whose score is
\* the extremum of scores: the minimum for X, the maximum for O.
FirstBest(player, scores, moves, r) ==
    \E k \in 1..Len(scores) :
        /\ r.score = scores[k]
        /\ r.move = Some(moves[k])
        /\ \A j \in 1..Len(scores) :
               /\ IF player = "X" THEN scores[k] <= scores[j] ELSE scores[k] >= scores[j]
               /\ (j # k /\ scores[j] = scores[k]) => moves[k] < moves[j]

\* C5: at every non-terminal node searched with depth > 0 the returned
\* (score, move) is that of the lowest-index explored child whose score is the
\* extremum of the explored children's scores (minimum for X, maximum for O):
\* of two explored siblings with equal score the lower cell index is selected.
C5_TieBreak ==
    [][(pc = "for" /\ pc' \in {"return", "done"}) =>
           /\ Len(Top.scores) > 0
           /\ Len(Top.moves) = Len(Top.scores)
           /\ \A j \in 1..Len(Top.moves) :
                  Top.state[Top.moves[j] - 1] = Empty
           /\ FirstBest(Top.player, Top.scores, Top.moves, ret')]_vars

\* A node returned where two explored children share the best score.
C5_TieReturned ==
    /\ pc \in {"return", "done"}
    /\ ret.move # None
    /\ \E j, k \in 1..Len(ret.scores) :
           j < k /\ ret.scores[j] = ret.score /\ ret.scores[k] = ret.score
                 /\ ret.move = Some(ret.moves[j])

\* The top-level call of the blocking scenario, at a depth from 2 to 6.
BlockCall ==
    /\ call.state = BlockBoard
    /\ call.player = "O"
    /\ call.depth \in 2..EmptyCount(BlockBoard)
    /\ call.alpha = -inf /\ call.beta = inf

\* C6 as stated: on [X,X,_,O,_,_,_,_,_] with mover O and depth 2..6 the
\* engine returns move index 2.
C6_ReturnsIndex2 ==
    (BlockCall /\ pc \in {"done", "raised"}) =>
        (pc = "done" /\ result.move = Some(2))

\* C6 amended: the engine returns move 3, the 1-based number of cell index 2
\* (the Empty cell of X's top row), and no other.
C6_ReturnsMove3 ==
    (BlockCall /\ pc \in {"done", "raised"}) =>
        /\ pc = "done"
        /\ result.move = Some(3)
        /\ BlockBoard[result.move[1] - 1] = Empty
        /\ \A c \in {0, 1, 2} : c # result.move[1] - 1 => BlockBoard[c] = "X"

C6_BlockReturned ==
    /\ BlockCall
    /\ call.depth = EmptyCount(BlockBoard)
    /\ pc = "done"
    /\ result.move = Some(3)

\* The top-level call on the empty board at full depth.
EmptyBoardCall ==
    /\ call.state = NewBoard
    /\ call.depth = NumCells
    /\ call.alpha = -inf /\ call.beta = inf

\* C7: on the empty board with depth 9 and the default window, for mover X
\* and for mover O, minimax_pruning terminates, never recurses deeper than 9
\* plies, and returns score 0.
C7_EmptyBoardFullDepth ==
    /\ <>(pc \in {"done", "raised"})
    /\ [](EmptyBoardCall =>
             /\ pc # "raised"
             /\ Len(stack) <= NumCells + 1
             /\ pc = "done" => (~result.raised /\ result.score = 0))

C7_EmptyBoardReturned ==
    /\ EmptyBoardCall
    /\ call.player = "X"
    /\ pc = "done"
    /\ result.score = 0

\* The search went 9 plies below the top-level call.
NinePliesDeep == EmptyBoardCall /\ Len(stack) = NumCells + 1

----------------------------------------------------------------------------
(* Properties of the game loop (SpecGame, SpecAI) *)

Count(b, symbol) == Cardinality({c \in Cells : b[c] = symbol})

\* Completed iterations of Game.play's loop: every accepted move filled one
\* cell, every other completed iteration was a rejected move.
Iterations == Count(board, "X") + Count(board, "O") + rejected

\* C8 as stated: in every state Game.play reaches, the number of X cells
\* minus the number of O cells is 0 or 1.
C8_XMinusO == Count(board, "X") - Count(board, "O") \in {0, 1}

\* C8 amended: O moves first, so the number of O cells minus the number of X
\* cells is 0 or 1.
C8_OMinusX == Count(board, "O") - Count(board, "X") \in {0, 1}

\* Play has gone on for several moves and O is one cell ahead.
C8_OAhead ==
    /\ pc = "loop"
    /\ Count(board, "O") = 3
    /\ Count(board, "X") = 2

\* Cell c is Empty and accepting the move sets exactly it, to the active
\* symbol, and passes the turn.
FillsCell(c) ==
    /\ board[c] = Empty
    /\ board' = [board EXCEPT ![c] = current_player]
    /\ current_player' = opponent(current_player)

\* C9: with two automated players of depth >= 1, Game.play from the empty
\* board eventually leaves its loop with a terminal board; every move a
\* policy returns is accepted by make_move, each accepted move fills exactly
\* one Empty cell with the active symbol and switches the active symbol, and
\* the loop ends after at most 9 iterations.
C9_AutomatedGameEnds ==
    /\ <>(pc = "over" /\ is_terminal(board))
    /\ [][pc = "make_move" =>
              /\ pc' = "loop"
              /\ rejected' = rejected
              /\ \E c \in Cells : FillsCell(c)]_vars
    /\ [](pc # "raised" /\ Iterations <= 9)

C9_GameOver ==
    /\ pc = "over"
    /\ is_terminal(board)
    /\ Iterations >= 5
    /\ \A s \in Symbols : players[s].kind = "AI" /\ players[s].depth >= 1

\* m is the 1-based number of an Empty cell of the board.
NamesEmptyCell(m) == m \in 1..9 /\ board[m - 1] = Empty

\* C10: for every integer m that is not the 1-based number of an Empty cell,
\* make_move(m) returns False and leaves every cell and current_player
\* unchanged, so play asks the same player again; make_move changes the board
\* only when m is in 1..9 and cell m-1 is Empty, and then exactly that cell.
C10_MakeMoveRejects ==
    [][(pc = "make_move" /\ move # None) =>
           IF NamesEmptyCell(move[1])
           THEN board' = [board EXCEPT ![move[1] - 1] = current_player]
           ELSE /\ pc' = "loop"
                /\ rejected' = rejected + 1
                /\ board' = board
                /\ current_player' = current_player]_vars

\* What holds of C10 in the code: the moves 1..9.
MakeMoveInRange ==
    [][(pc = "make_move" /\ move # None /\ move[1] \in 1..9) =>
           IF NamesEmptyCell(move[1])
           THEN board' = [board EXCEPT ![move[1] - 1] = current_player]
           ELSE /\ pc' = "loop"
                /\ rejected' = rejected + 1
                /\ board' = board
                /\ current_player' = current_player]_vars

====
